---- MODULE Spec2Model ----
(***************************************************************************)
(* A model of src/main.py: the Flask / Flask-SocketIO chat back end.       *)
(*                                                                         *)
(* The database tables (Token, User, Room, Message) are the variables      *)
(* tokens, users, rooms and messages, holding the COMMITTED rows.  A       *)
(* request works on its own SQLAlchemy session: the rows it loaded, the    *)
(* attributes it changed and the objects it added stay private to the      *)
(* request until db.session.commit().  The HTTP room listing get_rooms     *)
(* calls the provider over the network between its reads and its commit,   *)
(* so it is modelled as a process with a position (req[r].pc); the other   *)
(* handlers make no outbound call after their first read and are one       *)
(* action each.  Time is a counter of half days.                           *)
(***************************************************************************)
EXTENDS Integers, Sequences, FiniteSets, TLC

\* ---------------------------------------------------------------- bounds
MaxTime == 3          \* the clock runs from 0 to MaxTime (Spec, SpecRace)
MaxMsgs == 1          \* at most MaxMsgs rows in the Message table

\* ------------------------------------------------------------- constants
DAY == 2              \* ticks in timedelta(days=1)
WEEK == 7 * DAY       \* ticks in timedelta(weeks=1)

NoRoom == "NULL"      \* a NULL room column / a null roomId sent by a client
NoTime == -1          \* a NULL DateTime column
NoToken == "NULL"     \* the connection's session has no attribute `token`

Codes == {"t1", "t2"}
Conns == {"c1", "c2", "c3"}
Reqs == {"r1", "r2"}
Bodies == {"hi"}

\* The provider resolves an authorization code to the account it was issued
\* for (user_data["id"] of the /v1/me answer).
CodeOwner(code) == IF code = "t1" THEN "u1" ELSE "u2"

\* expires_in of the provider's token answers, in ticks.
ExpiresIn == {1}

\* ----------------------------------------------------- provider answers
\* One item of GET /v1/me/top/artists.
Artist(id, name, genres) ==
    [id |-> id, name |-> name, genres |-> genres, images |-> <<[url |-> id]>>]

\* Answers of GET /v1/me/top/artists the model draws from: the items in
\* rank order, each with its genre tags in the order given.
TasteA == << Artist("a1", "A1", <<"rock", "pop">>), Artist("a2", "A2", <<"rock">>) >>
TasteP == << Artist("a3", "A3", <<"rock", "pop">>), Artist("a2", "A2", <<"rock">>) >>
TasteQ == << Artist("a1", "A1", <<"rock", "jazz">>), Artist("a2", "A2", <<"rock">>) >>
TasteNone == << >>
TasteOne == << Artist("a1", "A1", <<"rock", "pop">>) >>
TasteMono == << Artist("a1", "A1", <<"rock">>), Artist("a2", "A2", <<"rock">>) >>
TasteBare == << Artist("a1", "A1", << >>), Artist("a2", "A2", << >>) >>

\* The space of answers the ranking is checked over: two or three
\* different artists in any order, each tagged with no genre, one genre or
\* two different genres.
ArtistIds == {"a1", "a2", "a3"}
GenreNames == {"rock", "pop", "jazz"}
ArtistName(id) == IF id = "a1" THEN "A1" ELSE IF id = "a2" THEN "A2" ELSE "A3"
TagLists ==
    {<<g>> : g \in GenreNames} \cup
    {t \in {<<g, h>> : g \in GenreNames, h \in GenreNames} : t[1] # t[2]} \cup {<<>>}
TasteOf(ids, tags) ==
    [n \in 1..Len(ids) |-> Artist(ids[n], ArtistName(ids[n]), tags[n])]
DifferentIds(ids) == \A m \in 1..Len(ids), n \in 1..Len(ids) : m # n => ids[m] # ids[n]
TasteSpace ==
    {TasteOf(ids, tags) :
        ids \in {i \in ArtistIds \X ArtistIds : DifferentIds(i)},
        tags \in TagLists \X TagLists} \cup
    {TasteOf(ids, tags) :
        ids \in {i \in ArtistIds \X ArtistIds \X ArtistIds : DifferentIds(i)},
        tags \in TagLists \X TagLists \X TagLists}

RoomIds == {"a1", "a2", "a3", "rock", "pop", "jazz"}

VARIABLES
    now,        \* datetime.datetime.now(), in ticks
    tokens,     \* table Token:   token -> [user_id, expiry]
    users,      \* table User:    id -> row
    rooms,      \* table Room:    id -> row
    messages,   \* table Message: the rows in insertion order
    sessTok,    \* per connection: session.token
    subs,       \* per connection: the Socket.IO rooms it has entered
    req,        \* per HTTP worker: the room listing it is serving
    out         \* what the last handler answered and emitted
vars == <<now, tokens, users, rooms, messages, sessTok, subs, req, out>>

\* ------------------------------------------------------------- helpers
\* (user.artist_room_1, user.artist_room_2, user.genre_room_1, user.genre_room_2)
SlotSeq(u) == <<u.artist_room_1, u.artist_room_2, u.genre_room_1, u.genre_room_2>>

SeqRange(s) == {s[i] : i \in 1..Len(s)}

\* Token.query.get(id): the row, found or not.
TokenKnown(id) == id \in DOMAIN tokens

\* `token.expiry < datetime.datetime.now()` of get_rooms and join.
TokenExpired(t, time) == t.expiry < time

\* Message.marshal
Marshal(m) ==
    [id |-> m.id, body |-> m.body, timestamp |-> m.timestamp,
     room_id |-> m.room_id, user |-> [id |-> m.user_id]]

RECURSIVE MarshalAll(_)
MarshalAll(ms) ==
    IF ms = <<>> THEN <<>> ELSE <<Marshal(Head(ms))>> \o MarshalAll(Tail(ms))

\* Mutant of RoomMessages: the whole log is listed, whatever the room.
RoomMessages_All(log, id) == MarshalAll(log)

\* [message.marshal() for message in room.messages]
RoomMessages(log, id) == MarshalAll(SelectSeq(log, LAMBDA m : m.room_id = id))

\* json.dumps / json.loads of a room's image list; a NULL images column
\* is not JSON and makes json.loads raise.
NullText == [null |-> TRUE]
JsonDumps(v) == [json |-> v]
JsonLoadable(s) == "json" \in DOMAIN s
JsonLoads(s) == s.json

IdleReq == [pc |-> "idle"]

Init ==
    /\ now = 0
    /\ tokens = <<>>
    /\ users = <<>>
    /\ rooms = <<>>
    /\ messages = <<>>
    /\ sessTok = [c \in Conns |-> NoToken]
    /\ subs = [c \in Conns |-> {}]
    /\ req = [r \in Reqs |-> IdleReq]
    /\ out = [op |-> "init"]

\* The reference clock advances by d ticks.
Tick(limit, d) ==
    /\ now + d <= limit
    /\ now' = now + d
    /\ out' = [op |-> "tick"]
    /\ UNCHANGED <<tokens, users, rooms, messages, sessTok, subs, req>>

\* ------------------------------------------------------ spotify_callback
\* The User row written by the callback: the credentials and their expiry
\* are set; a new row has no rooms yet, an existing row keeps its rooms.
LoggedIn(uid, e) ==
    IF uid \in DOMAIN users
    THEN [users[uid] EXCEPT !.access_token_expiry = now + e]
    ELSE [artist_room_1 |-> NoRoom, artist_room_2 |-> NoRoom,
          genre_room_1 |-> NoRoom, genre_room_2 |-> NoRoom,
          rooms_expiry |-> NoTime, access_token_expiry |-> now + e]

\* POST /api/v1/spotify-callback?code=<code>.  A code that already is a
\* Token row cannot be inserted again (primary key): the commit raises and
\* nothing is written.
spotify_callback(code, e) ==
    /\ UNCHANGED <<now, rooms, messages, sessTok, subs, req>>
    /\ IF code = NoToken
       THEN /\ out' = [op |-> "spotify_callback", status |-> "400"]
            /\ UNCHANGED <<tokens, users>>
       ELSE IF code \in DOMAIN tokens
       THEN /\ out' = [op |-> "spotify_callback", status |-> "500"]
            /\ UNCHANGED <<tokens, users>>
       ELSE LET uid == CodeOwner(code) IN
            /\ users' = (uid :> LoggedIn(uid, e)) @@ users
            /\ tokens' = (code :> [user_id |-> uid, expiry |-> now + WEEK]) @@ tokens
            /\ out' = [op |-> "spotify_callback", status |-> "201"]

\* ------------------------------------------------------------------ join
\* join_room(None) enters the room every connection already is in, so a
\* NULL slot adds no channel.
Channels(u) == SeqRange(SlotSeq(u)) \ {NoRoom}

\* Mutant of join: session.token is assigned before the token is looked up.
join_TokenFirst(c, token_id) ==
    /\ UNCHANGED <<now, tokens, users, rooms, messages, req>>
    /\ sessTok' = [sessTok EXCEPT ![c] = token_id]
    /\ IF ~TokenKnown(token_id) \/ TokenExpired(tokens[token_id], now)
       THEN /\ out' = [op |-> "join", status |-> "refused"]
            /\ UNCHANGED subs
       ELSE /\ subs' = [subs EXCEPT ![c] = @ \cup Channels(users[tokens[token_id].user_id])]
            /\ out' = [op |-> "join", status |-> "ok"]

\* Mutant of join: a join that finds the user's rooms_expiry passed marks
\* the rooms for recomputation.
join_Refreshing(c, token_id) ==
    /\ UNCHANGED <<now, tokens, rooms, messages, req>>
    /\ IF ~TokenKnown(token_id) \/ TokenExpired(tokens[token_id], now)
       THEN /\ out' = [op |-> "join", status |-> "refused"]
            /\ UNCHANGED <<users, sessTok, subs>>
       ELSE LET uid == tokens[token_id].user_id IN
            /\ users' = [users EXCEPT ![uid].rooms_expiry =
                            IF @ # NoTime /\ @ < now THEN NoTime ELSE @]
            /\ sessTok' = [sessTok EXCEPT ![c] = token_id]
            /\ subs' = [subs EXCEPT ![c] = @ \cup Channels(users[uid])]
            /\ out' = [op |-> "join", status |-> "ok"]

\* @socketio.on("join")
join(c, token_id) ==
    /\ UNCHANGED <<now, tokens, users, rooms, messages, req>>
    /\ IF ~TokenKnown(token_id) \/ TokenExpired(tokens[token_id], now)
       THEN /\ out' = [op |-> "join", status |-> "refused"]
            /\ UNCHANGED <<sessTok, subs>>
       ELSE LET user == users[tokens[token_id].user_id] IN
            /\ sessTok' = [sessTok EXCEPT ![c] = token_id]
            /\ subs' = [subs EXCEPT ![c] = @ \cup Channels(user)]
            /\ out' = [op |-> "join", status |-> "ok"]

\* ------------------------------------------------------- message_created
\* Mutant of HasAccess: any room that exists is accepted.
HasAccess_AnyRoom(user, room) == room \in DOMAIN rooms

\* `room not in (user.artist_room_1, ..., user.genre_room_2)` negated
HasAccess(user, room) == room \in SeqRange(SlotSeq(user))

\* Mutant of Subscribers: the event is sent with broadcast=True.
Subscribers_All(room) == Conns

\* emit(..., room=room): the connections that have entered the room
Subscribers(room) == {c \in Conns : room \in subs[c]}

\* Mutant of message_created: the event is emitted for a Message that is
\* never added to the session.
message_created_Unsaved(c, room, body) ==
    /\ UNCHANGED <<now, tokens, users, rooms, messages, sessTok, subs, req>>
    /\ IF sessTok[c] = NoToken
       THEN out' = [op |-> "new message", status |-> "error", recipients |-> {}]
       ELSE LET uid == tokens[sessTok[c]].user_id IN
            IF ~HasAccess(users[uid], room)
            THEN out' = [op |-> "new message", status |-> "403", recipients |-> {}]
            ELSE IF room \notin DOMAIN rooms
            THEN out' = [op |-> "new message", status |-> "error", recipients |-> {}]
            ELSE out' = [op |-> "new message", status |-> "201",
                         recipients |-> Subscribers(room),
                         message |-> Marshal([id |-> Len(messages) + 1, body |-> body,
                                              timestamp |-> now, user_id |-> uid,
                                              room_id |-> room])]

\* @socketio.on("new message")
message_created(c, room, body) ==
    /\ UNCHANGED <<now, tokens, users, rooms, sessTok, subs, req>>
    /\ IF sessTok[c] = NoToken
       THEN \* session.token raises AttributeError
            /\ out' = [op |-> "new message", status |-> "error", recipients |-> {}]
            /\ UNCHANGED messages
       ELSE LET uid == tokens[sessTok[c]].user_id IN
            IF ~HasAccess(users[uid], room)
            THEN /\ out' = [op |-> "new message", status |-> "403", recipients |-> {}]
                 /\ UNCHANGED messages
            ELSE IF room \notin DOMAIN rooms
            THEN \* Room.query.get(room) is None: room_id NOT NULL fails
                 /\ out' = [op |-> "new message", status |-> "error", recipients |-> {}]
                 /\ UNCHANGED messages
            ELSE LET message == [id |-> Len(messages) + 1, body |-> body,
                                 timestamp |-> now, user_id |-> uid,
                                 room_id |-> room] IN
                 /\ Len(messages) < MaxMsgs
                 /\ messages' = Append(messages, message)
                 /\ out' = [op |-> "new message", status |-> "201",
                            recipients |-> Subscribers(room),
                            message |-> Marshal(message)]

\* ------------------------------------------------------------- get_rooms
\* Mutant of RoomsStale: the comparison is the wrong way round.
RoomsStale_Flipped(user, time) ==
    user.rooms_expiry = NoTime \/ user.rooms_expiry > time

\* `(not user.rooms_expiry) or user.rooms_expiry < datetime.datetime.now()`
RoomsStale(user, time) == user.rooms_expiry = NoTime \/ user.rooms_expiry < time

\* `user.access_token_expiry < datetime.datetime.now()`
AccessExpired(user, time) == user.access_token_expiry < time

\* Mutant of NotEnoughData: one artist is taken to be enough.
NotEnoughData_One(items) == Len(items) < 1

\* `top_artists_data["total"] < 2`; the provider's total is the number of
\* items it returns (at most 50 are asked for).
NotEnoughData(items) == Len(items) < 2

\* datetime.combine(datetime.today(), time.min) + timedelta(days=1)
NextMidnight(time) == (time \div DAY) * DAY + DAY

\* Every genre tag of every artist, in the order the two loops visit them.
RECURSIVE GenreTags(_)
GenreTags(items) ==
    IF items = <<>> THEN <<>> ELSE Head(items).genres \o GenreTags(Tail(items))

\* Mutant of CountGenres: every tag is counted as a genre of its own.
CountGenres_PerTag(tags, genres) == genres \o [i \in 1..Len(tags) |-> <<tags[i], 1>>]

\* genres[genre] += 1 over a defaultdict(int): the (genre, count) items in
\* the order the keys were first inserted.
RECURSIVE CountGenres(_, _)
CountGenres(tags, genres) ==
    IF tags = <<>> THEN genres
    ELSE LET g == Head(tags)
             at == {i \in 1..Len(genres) : genres[i][1] = g} IN
         CountGenres(Tail(tags),
             IF at = {} THEN Append(genres, <<g, 1>>)
             ELSE [i \in 1..Len(genres) |->
                      IF i \in at THEN <<g, genres[i][2] + 1>> ELSE genres[i]])

\* One insertion of a stable sort by descending count: the item goes
\* behind every item whose count is not smaller.
RECURSIVE InsertByCount(_, _)
InsertByCount(sorted, item) ==
    IF sorted = <<>> THEN <<item>>
    ELSE IF Head(sorted)[2] >= item[2]
         THEN <<Head(sorted)>> \o InsertByCount(Tail(sorted), item)
         ELSE <<item>> \o sorted

\* sorted(genres.items(), key=lambda item: item[1], reverse=True)
RECURSIVE SortByCount(_, _)
SortByCount(items, sorted) ==
    IF items = <<>> THEN sorted
    ELSE SortByCount(Tail(items), InsertByCount(sorted, Head(items)))

\* Mutant of genres_sorted: the sort is left out, the genres stay in the
\* order they were first met.
genres_sorted_Unsorted(items) == CountGenres(GenreTags(items), <<>>)

genres_sorted(items) == SortByCount(CountGenres(GenreTags(items), <<>>), <<>>)

\* The four entries appended to `rooms` on the cache-miss path.
ArtistEntry(a) ==
    [type |-> "artist", name |-> a.name, id |-> a.id, images |-> a.images]
GenreEntry(g) == [type |-> "genre", name |-> g[1], id |-> g[1]]
ComputedRooms(items) ==
    LET gs == genres_sorted(items) IN
    <<ArtistEntry(items[1]), ArtistEntry(items[2]), GenreEntry(gs[1]), GenreEntry(gs[2])>>

\* The Room row added for an entry that has none: a genre entry is
\* stored under its name, with room_type "artist" and no images.
NewRoom(entry) ==
    IF entry.type = "artist"
    THEN [id |-> entry.id, name |-> entry.name, room_type |-> "artist",
          images |-> JsonDumps(entry.images)]
    ELSE [id |-> entry.name, name |-> entry.name, room_type |-> "artist",
          images |-> NullText]

\* The loop over `rooms` of the cache-miss path, from entry i on: the rows
\* this session has added so far are `pending`; a query sees the committed
\* rows and the session's own.
RECURSIVE EnsureRooms(_, _, _, _)
EnsureRooms(entries, i, committed, pending) ==
    IF i > Len(entries) THEN pending
    ELSE LET entry == entries[i]
             found == entry.id \in DOMAIN committed \cup DOMAIN pending IN
         EnsureRooms(entries, i + 1, committed,
             IF found THEN pending
             ELSE (NewRoom(entry).id :> NewRoom(entry)) @@ pending)

\* room["messages"] = [...] for every entry
WithMessages(entries, log) ==
    [i \in 1..Len(entries) |->
        [messages |-> RoomMessages(log, entries[i].id)] @@ entries[i]]

\* The entry of the cache-hit path for a stored Room row.
StoredEntry(room, log) ==
    LET room_data == [type |-> room.room_type, name |-> room.name, id |-> room.id,
                      messages |-> RoomMessages(log, room.id)] IN
    IF JsonLoadable(room.images)
    THEN [images |-> JsonLoads(room.images)] @@ room_data
    ELSE room_data

\* The UPDATE a session flushes for a row it loaded and changed: only the
\* columns whose value differs from the loaded one are written.
Flush(committed, loaded, dirty) ==
    [f \in DOMAIN committed |->
        IF dirty[f] # loaded[f] THEN dirty[f] ELSE committed[f]]

Answer(status) == [op |-> "get_rooms", status |-> status]

\* GET /api/v1/rooms, lines 190-200 and the cache-hit path 290-305.
get_rooms_begin(r, token_id) ==
    /\ req[r].pc = "idle"
    /\ UNCHANGED <<now, tokens, users, rooms, messages, sessTok, subs>>
    /\ IF ~TokenKnown(token_id) \/ TokenExpired(tokens[token_id], now)
       THEN /\ out' = Answer("403")
            /\ UNCHANGED req
       ELSE LET uid == tokens[token_id].user_id
                user == users[uid] IN
            IF RoomsStale(user, now)
            THEN /\ req' = [req EXCEPT ![r] =
                              [pc |-> "fetch", user_id |-> uid, loaded |-> user]]
                 /\ out' = Answer("miss")
            ELSE IF \E i \in 1..4 : SlotSeq(user)[i] \notin DOMAIN rooms
            THEN \* room is None: AttributeError
                 /\ out' = Answer("500")
                 /\ UNCHANGED req
            ELSE /\ out' = [path |-> "hit",
                            rooms |-> [i \in 1..4 |->
                                 StoredEntry(rooms[SlotSeq(user)[i]], messages)],
                            expiry |-> user.rooms_expiry] @@ Answer("200")
                 /\ UNCHANGED req

\* Lines 201-287: the credential refresh, the provider's answer `items`,
\* the assignment and the loop that adds the missing rooms.
get_rooms_fetch(r, items, e) ==
    /\ req[r].pc = "fetch"
    /\ UNCHANGED <<now, tokens, rooms, messages, sessTok, subs>>
    /\ LET uid == req[r].user_id
           loaded == req[r].loaded
           fresh == IF AccessExpired(loaded, now)
                    THEN [loaded EXCEPT !.access_token_expiry = now + e]
                    ELSE loaded IN
       IF NotEnoughData(items)
       THEN \* 204; the session is committed when the request is torn down
            /\ users' = [users EXCEPT ![uid] = Flush(@, loaded, fresh)]
            /\ req' = [req EXCEPT ![r] = IdleReq]
            /\ out' = Answer("204")
       ELSE IF Len(items) < 2 \/ Len(genres_sorted(items)) < 2
       THEN \* items[1] or genres_sorted[1] raises IndexError; nothing is
            \* committed
            /\ req' = [req EXCEPT ![r] = IdleReq]
            /\ out' = Answer("500")
            /\ UNCHANGED users
       ELSE LET entries == ComputedRooms(items)
                dirty == [fresh EXCEPT !.artist_room_1 = entries[1].id,
                                       !.artist_room_2 = entries[2].id,
                                       !.genre_room_1 = entries[3].id,
                                       !.genre_room_2 = entries[4].id,
                                       !.rooms_expiry = NextMidnight(now)] IN
            /\ req' = [req EXCEPT ![r] =
                         [pc |-> "commit", user_id |-> uid, loaded |-> loaded,
                          dirty |-> dirty, items |-> items,
                          pending |-> EnsureRooms(entries, 1, rooms, <<>>),
                          rooms |-> WithMessages(entries, messages)]]
            /\ out' = Answer("computed")
            /\ UNCHANGED users

\* Lines 288-305: db.session.commit() and the answer.  Inserting a Room
\* whose id has been committed meanwhile violates the primary key: the
\* commit raises IntegrityError and the transaction is rolled back.
get_rooms_commit(r) ==
    /\ req[r].pc = "commit"
    /\ UNCHANGED <<now, tokens, messages, sessTok, subs>>
    /\ req' = [req EXCEPT ![r] = IdleReq]
    /\ LET uid == req[r].user_id IN
       IF DOMAIN req[r].pending \cap DOMAIN rooms # {}
       THEN /\ out' = [fault |-> "IntegrityError"] @@ Answer("500")
            /\ UNCHANGED <<users, rooms>>
       ELSE /\ users' = [users EXCEPT ![uid] = Flush(@, req[r].loaded, req[r].dirty)]
            /\ rooms' = req[r].pending @@ rooms
            /\ out' = [path |-> "miss", rooms |-> req[r].rooms,
                       expiry |-> req[r].dirty.rooms_expiry] @@ Answer("200")

\* -------------------------------------------------------- specifications
\* The HTTP requests of the clients holding `codes`, served by `workers`,
\* with the provider answering from `tastes`.
Http(codes, workers, tastes) ==
    \/ \E code \in codes \cup {NoToken}, e \in ExpiresIn : spotify_callback(code, e)
    \/ \E r \in workers, t \in codes \cup {"bad"} : get_rooms_begin(r, t)
    \/ \E r \in workers, items \in tastes, e \in ExpiresIn : get_rooms_fetch(r, items, e)
    \/ \E r \in workers : get_rooms_commit(r)

\* The Socket.IO events of the connections `conns`.
Realtime(codes, conns, postRooms) ==
    \/ \E c \in conns, t \in codes \cup {"bad"} : join(c, t)
    \/ \E c \in conns, room \in postRooms, b \in Bodies : message_created(c, room, b)

\* One account, one connection, one HTTP worker.
Next ==
    \/ Tick(MaxTime, 1)
    \/ Http({"t1"}, {"r1"}, {TasteA, TasteP, TasteNone, TasteOne, TasteMono, TasteBare})
    \/ Realtime({"t1"}, {"c1"}, {"a1", "a3", "rock", NoRoom})
Spec == Init /\ [][Next]_vars

\* Two accounts on one connection.
NextAccounts ==
    \/ Tick(MaxTime, 1)
    \/ Http({"t1", "t2"}, {"r1"}, {TasteA, TasteP})
    \/ Realtime({"t1", "t2"}, {"c1"}, {"a1", "a3"})
SpecAccounts == Init /\ [][NextAccounts]_vars

\* One account on three connections.
NextBroadcast ==
    \/ Tick(MaxTime, 1)
    \/ Http({"t1"}, {"r1"}, {TasteA})
    \/ Realtime({"t1"}, {"c1", "c2", "c3"}, {"a1", "jazz"})
SpecBroadcast == Init /\ [][NextBroadcast]_vars

\* One account and one connection over the life of a token: after the
\* first ticks the clients come back a week later.
NextExpiry ==
    \/ Tick(MaxTime, 1)
    \/ (\A r \in Reqs : req[r].pc = "idle") /\ Tick(WEEK + MaxTime, WEEK)
    \/ Http({"t1"}, {"r1"}, {TasteA})
    \/ Realtime({"t1"}, {"c1"}, {"a1", "pop"})
SpecExpiry == Init /\ [][NextExpiry]_vars

\* One account served by two HTTP workers at once.
NextRace ==
    \/ Tick(MaxTime, 1)
    \/ Http({"t1"}, {"r1", "r2"}, {TasteA, TasteP, TasteQ})
SpecRace == Init /\ [][NextRace]_vars

\* One account and one worker on a single day, the provider answering
\* from the whole TasteSpace.
NextTaste == Http({"t1"}, {"r1"}, TasteSpace)
SpecTaste == Init /\ [][NextTaste]_vars

\* Two accounts, each with a connection of its own, posting to one room.
NextDrift ==
    \/ Tick(MaxTime, 1)
    \/ Http({"t1", "t2"}, {"r1"}, {TasteA, TasteP})
    \/ Realtime({"t1"}, {"c1"}, {"a1"})
    \/ Realtime({"t2"}, {"c2"}, {"a1"})
SpecDrift == Init /\ [][NextDrift]_vars

\* ---------------------------------------------------------------- claims
PostInputs == RoomIds \cup {NoRoom}
TokenInputs == Codes \cup {"bad"}
TasteInputs == {TasteA, TasteP, TasteQ, TasteNone, TasteOne, TasteMono, TasteBare}

\* The user a connection's session token resolves to.
PostingUser(c) == users[tokens[sessTok[c]].user_id]

\* C1: a post by an authenticated connection to a room that is none of the
\* posting user's four stored room identifiers is answered 403, leaves the
\* Message table as it was and is sent to nobody.
C1_ForbiddenPost ==
    [][\A c \in Conns, room \in PostInputs, b \in Bodies :
          (/\ message_created(c, room, b)
           /\ sessTok[c] # NoToken
           /\ room \notin SeqRange(SlotSeq(PostingUser(c))))
          => (/\ out'.status = "403"
              /\ messages' = messages
              /\ out'.recipients = {})]_vars

\* A post has just been answered 403 while the user has rooms assigned.
C1_Witness ==
    /\ out.op = "new message"
    /\ out.status = "403"
    /\ \E c \in Conns : sessTok[c] # NoToken /\ Channels(PostingUser(c)) # {}

\* C2: token resolution in get_rooms and join is refused exactly when the
\* token is unknown or now >= token.expiry, resolves to the owning user
\* otherwise, and a refusal changes no state.
C2_Resolve ==
    [][/\ \A c \in Conns, t \in TokenInputs :
             join(c, t) =>
                /\ out'.status = "refused"
                      <=> (t \notin DOMAIN tokens \/ now >= tokens[t].expiry)
                /\ out'.status = "refused"
                      => UNCHANGED <<tokens, users, rooms, messages, sessTok, subs, req>>
                /\ out'.status = "ok" => sessTok'[c] = t
       /\ \A r \in Reqs, t \in TokenInputs :
             get_rooms_begin(r, t) =>
                /\ out'.status = "403"
                      <=> (t \notin DOMAIN tokens \/ now >= tokens[t].expiry)
                /\ out'.status = "403"
                      => UNCHANGED <<tokens, users, rooms, messages, sessTok, subs, req>>
                /\ out'.status = "miss" => req'[r].user_id = tokens[t].user_id]_vars

\* C3: a post on a connection whose token has expired since the join is
\* rejected, appends nothing and is sent to nobody.
C3_ExpiredPostRejected ==
    [][\A c \in Conns, room \in PostInputs, b \in Bodies :
          (/\ message_created(c, room, b)
           /\ sessTok[c] # NoToken
           /\ tokens[sessTok[c]].expiry < now)
          => (/\ out'.status # "201"
              /\ messages' = messages
              /\ out'.recipients = {})]_vars

\* C4: the event of a successful post to a room reaches the connections
\* that have entered the room, and no other connection.
C4_Broadcast ==
    [][\A c \in Conns, room \in PostInputs, b \in Bodies :
          (message_created(c, room, b) /\ out'.status = "201")
          => \A d \in Conns : d \in out'.recipients <=> room \in subs[d]]_vars

\* A message has reached the two connections that entered its room and
\* not the third one, which joined without entering it.
C4_Witness ==
    /\ out.op = "new message"
    /\ out.status = "201"
    /\ Cardinality(out.recipients) = 2
    /\ \E d \in Conns \ out.recipients :
          sessTok[d] # NoToken /\ out.message.room_id \notin subs[d]

\* C5: the connection whose post succeeds is among the recipients of the
\* message.
C5_SenderReceives ==
    [][\A c \in Conns, room \in PostInputs, b \in Bodies :
          (message_created(c, room, b) /\ out'.status = "201")
          => c \in out'.recipients]_vars

\* C6: after a successful join the connection's channels are exactly the
\* room identifiers stored on the resolved user's record.
C6_ExactlyFour ==
    [][\A c \in Conns, t \in TokenInputs :
          (join(c, t) /\ out'.status = "ok")
          => subs'[c] = Channels(users[tokens[t].user_id])]_vars

C8_NotEnoughData ==
    [][\A r \in Reqs, items \in TasteInputs, e \in ExpiresIn :
          (get_rooms_fetch(r, items, e) /\ Len(items) < 2)
          => /\ out'.status = "204"
             /\ rooms' = rooms
             /\ DOMAIN users' = DOMAIN users
             /\ \A u \in DOMAIN users :
                   /\ SlotSeq(users'[u]) = SlotSeq(users[u])
                   /\ users'[u].rooms_expiry = users[u].rooms_expiry]_vars

\* A listing has just been answered 204.
C8_Witness == out.op = "get_rooms" /\ out.status = "204"

C10_OneSetPersists ==
    [][\A r \in Reqs :
          (get_rooms_commit(r) /\ out'.status = "200")
          => LET uid == req[r].user_id
                 Whole(u) == <<SlotSeq(u), u.rooms_expiry>> IN
             Whole(users'[uid]) \in {Whole(req[r].dirty), Whole(users[uid])}]_vars

\* The number of times genre g is tagged over all artists of an answer, and
\* the place of its first tag in the order the artists and their tags come.
TagCount(items, g) ==
    Cardinality({<<i, j>> \in (1..Len(items)) \X (1..2) :
                    j <= Len(items[i].genres) /\ items[i].genres[j] = g})
FirstSeen(items, g) ==
    LET tags == GenreTags(items) IN
    CHOOSE k \in 1..Len(tags) : tags[k] = g /\ \A j \in 1..(k - 1) : tags[j] # g
TaggedGenres(items) == SeqRange(GenreTags(items))

\* Genre g comes before genre h: it is tagged more often, or as often and
\* met first.
RanksBefore(items, g, h) ==
    \/ TagCount(items, g) > TagCount(items, h)
    \/ TagCount(items, g) = TagCount(items, h) /\ FirstSeen(items, g) < FirstSeen(items, h)

\* The genre with exactly n genres before it.
GenreRanked(items, n) ==
    CHOOSE g \in TaggedGenres(items) :
        Cardinality({h \in TaggedGenres(items) \ {g} : RanksBefore(items, h, g)}) = n

\* The assignment the ranking rule gives for an answer.
RankedRooms(items) ==
    <<items[1].id, items[2].id, GenreRanked(items, 0), GenreRanked(items, 1)>>

\* C11: a listing that computes rooms from an answer with at least 2
\* artists and at least 2 different genres assigns the ids of the first and
\* second artist and the two genres ranked first by descending tag count,
\* ties in first-met order; these four are what the commit stores on the
\* user and what the listing answers.
C11_RankedAssignment ==
    /\ [][\A r \in Reqs :
             (req[r].pc = "fetch" /\ req'[r].pc = "commit")
             => /\ Len(req'[r].items) >= 2
                /\ Cardinality(TaggedGenres(req'[r].items)) >= 2
                /\ SlotSeq(req'[r].dirty) = RankedRooms(req'[r].items)]_vars
    /\ [][\A r \in Reqs :
             (get_rooms_commit(r) /\ out'.status = "200")
             => /\ SlotSeq(users'[req[r].user_id]) = RankedRooms(req[r].items)
                /\ \A i \in 1..4 : out'.rooms[i].id = RankedRooms(req[r].items)[i]]_vars

\* A listing has computed rooms from three artists whose genres tie for
\* the second place: a genre left out is tagged as often as the second.
C11_Witness ==
    \E r \in Reqs :
        /\ req[r].pc = "commit"
        /\ Len(req[r].items) = 3
        /\ \E h \in TaggedGenres(req[r].items) \ SeqRange(SlotSeq(req[r].dirty)) :
              TagCount(req[r].items, h) = TagCount(req[r].items, req[r].dirty.genre_room_2)

\* The type a listing is to report for slot i: the first two slots are the
\* artists, the last two the genres.
SlotType(i) == IF i <= 2 THEN "artist" ELSE "genre"

\* C12: a Room added for a genre slot is stored with room_type "genre" and
\* one added for an artist slot with room_type "artist", and a listing
\* answered from the stored rooms reports type "artist" for the two artist
\* slots and "genre" for the two genre slots, as the computing listing does.
C12_RoomTypes ==
    /\ [][\A r \in Reqs :
             (get_rooms_commit(r) /\ out'.status = "200")
             => /\ \A i \in 1..4 :
                      SlotSeq(req[r].dirty)[i] \in DOMAIN rooms' \ DOMAIN rooms
                      => rooms'[SlotSeq(req[r].dirty)[i]].room_type = SlotType(i)
                /\ \A i \in 1..4 : out'.rooms[i].type = SlotType(i)]_vars
    /\ [][\A r \in Reqs, t \in Codes :
             (get_rooms_begin(r, t) /\ out'.status = "200")
             => \A i \in 1..4 : out'.rooms[i].type = SlotType(i)]_vars

\* The entries `shown` are the history of room `id`: every row of the log
\* that belongs to the room has exactly one entry, with the row's id, body,
\* room and user, no other row has any, and there is no further entry.
ShowsHistory(shown, id) ==
    /\ \A k \in 1..Len(messages) :
          LET m == messages[k]
              at == {j \in 1..Len(shown) : shown[j].id = m.id} IN
          IF m.room_id = id
          THEN /\ Cardinality(at) = 1
               /\ \A j \in at : /\ shown[j].body = m.body
                                /\ shown[j].room_id = m.room_id
                                /\ shown[j].user.id = m.user_id
          ELSE at = {}
    /\ \A j \in 1..Len(shown) : \E k \in 1..Len(messages) : shown[j].id = messages[k].id

Assignment == [u \in DOMAIN users |-> <<SlotSeq(users[u]), users[u].rooms_expiry>>]

\* C14: a join, accepted or refused, and a post, accepted or forbidden,
\* leave every user's four room identifiers, every rooms_expiry and the
\* Room table as they were, also for a user whose rooms_expiry has passed.
C14_RealtimeKeepsRooms ==
    [][(\/ \E c \in Conns, t \in TokenInputs : join(c, t)
        \/ \E c \in Conns, room \in PostInputs, b \in Bodies : message_created(c, room, b))
       => (Assignment' = Assignment /\ rooms' = rooms)]_vars

\* A connection has just joined for a user whose rooms_expiry has passed.
C14_Witness ==
    /\ out.op = "join"
    /\ out.status = "ok"
    /\ \E c \in Conns :
          /\ sessTok[c] # NoToken
          /\ PostingUser(c).rooms_expiry # NoTime
          /\ PostingUser(c).rooms_expiry < now

\* The marshalled message `shown` is a row of the log, in room `id`.
Persisted(log, shown, id) ==
    \E k \in 1..Len(log) : Marshal(log[k]) = shown /\ log[k].room_id = id

\* C15: when the event of a post is emitted, to however many connections,
\* its message is a row of the log in the room posted to; this holds as
\* well when the event reaches no connection at all.
C15_PersistedBeforeDelivery ==
    [][\A c \in Conns, room \in PostInputs, b \in Bodies :
          message_created(c, room, b)
          => /\ out'.recipients # {} => Persisted(messages', out'.message, room)
             /\ out'.status = "201" => Persisted(messages', out'.message, room)
             /\ out'.status # "201" => out'.recipients = {} /\ messages' = messages]_vars

\* A post has been accepted and stored although its event reached nobody.
C15_Witness ==
    /\ out.op = "new message"
    /\ out.status = "201"
    /\ out.recipients = {}
    /\ Persisted(messages, out.message, out.message.room_id)

\* C16: a connection is associated with a token only by a join that is
\* accepted; a refused join leaves the connection's association and
\* channels as they were; and a post on a connection that has no
\* association appends nothing to the log and is sent to nobody.
C16_PostNeedsJoin ==
    /\ [][\A c \in Conns, room \in PostInputs, b \in Bodies :
             (message_created(c, room, b) /\ sessTok[c] = NoToken)
             => /\ out'.status = "error"
                /\ messages' = messages
                /\ out'.recipients = {}]_vars
    /\ [][\A c \in Conns, t \in TokenInputs :
             (join(c, t) /\ out'.status = "refused")
             => sessTok' = sessTok /\ subs' = subs]_vars
    /\ [][\A c \in Conns :
             (sessTok'[c] # sessTok[c] \/ subs'[c] # subs[c])
             => \E t \in TokenInputs : join(c, t) /\ out'.status = "ok"]_vars

\* A post has just failed on a connection without association, at a time
\* when a join with the only token issued is refused because it expired.
C16_Witness ==
    /\ out.op = "new message"
    /\ out.status = "error"
    /\ sessTok["c1"] = NoToken
    /\ subs["c1"] = {}
    /\ "t1" \in DOMAIN tokens
    /\ TokenExpired(tokens["t1"], now)

\* C17: every connection that receives the event of a post to a room is
\* associated with a user whose four stored room identifiers include the
\* room at that time.
C17_OnlyCurrentMembers ==
    [][\A c \in Conns, room \in PostInputs, b \in Bodies :
          (message_created(c, room, b) /\ out'.status = "201")
          => \A d \in out'.recipients :
                /\ sessTok[d] # NoToken
                /\ room \in SeqRange(SlotSeq(PostingUser(d)))]_vars

\* The four slots of a user's row are all NULL or all set.
SlotsAllOrNone(u) ==
    \/ \A i \in 1..4 : SlotSeq(u)[i] = NoRoom
    \/ \A i \in 1..4 : SlotSeq(u)[i] # NoRoom

\* In a committed state the four slots of every user are all NULL or all
\* set, every slot that is set names a row of the Room table, and every
\* Message row refers to a row of the Room table.
ReferentialIntegrity ==
    /\ \A u \in DOMAIN users :
          /\ SlotsAllOrNone(users[u])
          /\ Channels(users[u]) \subseteq DOMAIN rooms
    /\ \A k \in 1..Len(messages) : messages[k].room_id \in DOMAIN rooms

\* C18: every step leads to a state of referential integrity between the
\* users' slots, the Message rows and the Room table; a listing answered
\* from the stored rooms finds the Room of every slot; and a post that
\* passes the membership check finds the Room it is posted to.
C18_NoMissingRoom ==
    /\ [][ReferentialIntegrity']_vars
    /\ [][\A r \in Reqs, t \in TokenInputs :
             get_rooms_begin(r, t) => out'.status # "500"]_vars
    /\ [][\A c \in Conns, room \in PostInputs, b \in Bodies :
             (/\ message_created(c, room, b)
              /\ sessTok[c] # NoToken
              /\ out'.status # "403")
             => room \in DOMAIN rooms]_vars

\* C19: a computing listing whose answer has at least 2 artists but fewer
\* than 2 different genres fails: it ends without a 200 and without a
\* commit, adds no Room, leaves every rooms_expiry as it was, and the
\* user's rooms stay due for recomputation.
C19_TooFewGenres ==
    [][\A r \in Reqs, items \in TasteInputs, e \in ExpiresIn :
          (/\ get_rooms_fetch(r, items, e)
           /\ Len(items) >= 2
           /\ Cardinality(TaggedGenres(items)) < 2)
          => /\ out'.status = "500"
             /\ req'[r].pc = "idle"
             /\ rooms' = rooms
             /\ DOMAIN users' = DOMAIN users
             /\ \A u \in DOMAIN users :
                   /\ users'[u].rooms_expiry = users[u].rooms_expiry
                   /\ SlotSeq(users'[u]) = SlotSeq(users[u])
             /\ RoomsStale(users'[req[r].user_id], now')]_vars

\* A listing has just failed for a user whose rooms of an earlier day are
\* still stored and have expired.
C19_Witness ==
    /\ out.op = "get_rooms"
    /\ out.status = "500"
    /\ \E u \in DOMAIN users :
          /\ users[u].rooms_expiry # NoTime
          /\ users[u].rooms_expiry < now
====
